---------------------------- MODULE Spec2Model ----------------------------
(***************************************************************************)
(* A model of listwalker (src/src/listwalker/__init__.py): ListWalker1D    *)
(* and ListWalker2D, a cursor over a fixed list or grid with a list of     *)
(* ignored positions.  Positions are 0-based as in the code.  One          *)
(* behaviour follows one walker object: its construction, then any         *)
(* sequence of method calls and of caller changes to ignored_elements.     *)
(* Every method call leaves its arguments, the walker state it started     *)
(* from and its outcome in the variable call.  Spec compares positions by  *)
(* value; SpecElements also follows the identity of the position lists of  *)
(* a ListWalker2D and the elements the caller keeps (lists, cursor_ref,    *)
(* held).                                                                  *)
(***************************************************************************)
EXTENDS Integers, Sequences, FiniteSets, TLC

VARIABLES walker, data, cursor, ignored_elements, call, lists, cursor_ref, held

vars == <<walker, data, cursor, ignored_elements, call, lists, cursor_ref, held>>

(* Bounds of the model. *)
MaxLen == 4
MaxCells == 6
MaxIgnored == 2

(***************************************************************************)
(* Outcomes of a call: a returned value or a raised exception.             *)
(***************************************************************************)
Return(v) == [raised |-> "none", value |-> v]

Raise(e) == [raised |-> e]

(* frozen dataclass ListWalkerElement(position, value, is_ignored, walker) *)
ListWalkerElement(position, value, is_ignored, w) ==
    [position |-> position, value |-> value, is_ignored |-> is_ignored, walker |-> w]

(* The outcome of a walk: what it returned or raised, the cursor it left   *)
(* and the number of iterations of its while loop.                         *)
Walked(outcome, c, n) == [outcome |-> outcome, cursor |-> c, iters |-> n]

(***************************************************************************)
(* The data a walker is built from: the lists and grids of the tests,      *)
(* [1, 2, ..] and rows of consecutive numbers, of every size up to the     *)
(* bounds (MaxLen items, MaxCells cells), the empty list and the grids     *)
(* without rows or without columns included.                               *)
(***************************************************************************)
List1D(n) == [i \in 1..n |-> i]

Grid2D(rows, cols) == [r \in 1..rows |-> [c \in 1..cols |-> (r - 1) * cols + c]]

Data1D == {List1D(n) : n \in 0..MaxLen}

Data2D ==
    {Grid2D(0, 0)} \cup
    {Grid2D(s[1], s[2]) : s \in {t \in (1..MaxCells) \X (0..MaxCells) : t[1] * t[2] <= MaxCells}}

(***************************************************************************)
(* ListWalker1D                                                            *)
(***************************************************************************)
size1D == Len(data)

(* is_ignored validating the position: false for every position outside   *)
(* the data, whatever ignored_elements holds.                              *)
is_ignored1D_boundschecked(position) ==
    position >= 0 /\ position < size1D /\ position \in ignored_elements

is_ignored1D(position) == position \in ignored_elements

(* get relying on Python's list indexing for the range check: a negative   *)
(* position down to -size counts from the end.                             *)
get1D_pythonindex(position) ==
    IF position >= size1D \/ position < -size1D
    THEN Raise("IndexError")
    ELSE Return(ListWalkerElement(position, data[(position % size1D) + 1],
                                  is_ignored1D(position), walker))

get1D(position) ==
    IF position < 0 \/ position >= size1D
    THEN Raise("IndexError")
    ELSE Return(ListWalkerElement(position, data[position + 1],
                                  is_ignored1D(position), walker))

cursor_element1D == get1D(cursor)

(* get_left looking past an ignored neighbour to the position before it. *)
get_left1D_skipsignored ==
    IF is_ignored1D(cursor - 1) THEN get1D(cursor - 2) ELSE get1D(cursor - 1)

get_left1D == get1D(cursor - 1)

get_right1D == get1D(cursor + 1)

(* neighbors is the dict built by the two try blocks: a direction whose    *)
(* query raised IndexError has no key.  position is assigned and never     *)
(* read: get_left and get_right look from the cursor.                      *)
get_neighbors1D(given, position) ==
    LET position_ == IF given /\ position # 0 THEN position ELSE cursor
        dirs == {d \in {"left", "right"} :
                    IF d = "left" THEN get_left1D.raised = "none"
                                  ELSE get_right1D.raised = "none"}
    IN  Return([d \in dirs |-> IF d = "left" THEN get_left1D.value
                                             ELSE get_right1D.value])

(* The while loop of walk_left, entered with the element at position.      *)
(* walk_left without its skipping loop: it lands on the first position     *)
(* to the left, ignored or not.                                            *)
walk_left_loop1D_firstposition(position, element, silent, n) ==
    Walked(Return(element), position, n)

RECURSIVE walk_left_loop1D(_, _, _, _)
walk_left_loop1D(position, element, silent, n) ==
    IF ~element.is_ignored
    THEN Walked(Return(element), position, n)
    ELSE LET r == get1D(position - 1)
         IN  IF r.raised = "IndexError"
             THEN IF silent THEN Walked(cursor_element1D, cursor, n + 1)
                            ELSE Walked(r, cursor, n + 1)
             ELSE walk_left_loop1D(position - 1, r.value, silent, n + 1)

(* walk_left without its "not jump" check: it walks over an ignored        *)
(* neighbour whatever jump says.                                           *)
walk_left1D_alwaysjump(jump, silent) ==
    LET position == cursor - 1
        r == get1D(position)
    IN  IF r.raised = "IndexError"
        THEN IF silent THEN Walked(cursor_element1D, cursor, 0)
                       ELSE Walked(r, cursor, 0)
        ELSE walk_left_loop1D(position, r.value, silent, 0)

walk_left1D(jump, silent) ==
    LET position == cursor - 1
        r == get1D(position)
    IN  IF r.raised = "IndexError"
        THEN IF silent THEN Walked(cursor_element1D, cursor, 0)
                       ELSE Walked(r, cursor, 0)
        ELSE IF ~jump /\ r.value.is_ignored
        THEN IF silent THEN Walked(cursor_element1D, cursor, 0)
                       ELSE Walked(Raise("CannotWalkException"), cursor, 0)
        ELSE walk_left_loop1D(position, r.value, silent, 0)

RECURSIVE walk_right_loop1D(_, _, _, _)
walk_right_loop1D(position, element, silent, n) ==
    IF ~element.is_ignored
    THEN Walked(Return(element), position, n)
    ELSE LET r == get1D(position + 1)
         IN  IF r.raised = "IndexError"
             THEN IF silent THEN Walked(cursor_element1D, cursor, n + 1)
                            ELSE Walked(r, cursor, n + 1)
             ELSE walk_right_loop1D(position + 1, r.value, silent, n + 1)

(* walk_right assigning the cursor before its checks: a blocked or         *)
(* out-of-range call that is not silent raises with the cursor moved.      *)
walk_right1D_movesfirst(jump, silent) ==
    LET position == cursor + 1
        r == get1D(position)
    IN  IF r.raised = "IndexError"
        THEN IF silent THEN Walked(cursor_element1D, cursor, 0)
                       ELSE Walked(r, position, 0)
        ELSE IF ~jump /\ r.value.is_ignored
        THEN IF silent THEN Walked(cursor_element1D, cursor, 0)
                       ELSE Walked(Raise("CannotWalkException"), position, 0)
        ELSE walk_right_loop1D(position, r.value, silent, 0)

walk_right1D(jump, silent) ==
    LET position == cursor + 1
        r == get1D(position)
    IN  IF r.raised = "IndexError"
        THEN IF silent THEN Walked(cursor_element1D, cursor, 0)
                       ELSE Walked(r, cursor, 0)
        ELSE IF ~jump /\ r.value.is_ignored
        THEN IF silent THEN Walked(cursor_element1D, cursor, 0)
                       ELSE Walked(Raise("CannotWalkException"), cursor, 0)
        ELSE walk_right_loop1D(position, r.value, silent, 0)

(***************************************************************************)
(* ListWalker2D.  A position [row, col] of the code is the tuple           *)
(* <<row, col>>: position[0] of the code is position[1] here.              *)
(***************************************************************************)
size2D ==
    LET rows == Len(data)
        cols == IF Len(data) = 0 THEN 0 ELSE Len(data[1])
    IN  <<rows, cols>>

(* is_ignored comparing only the row of the position with the ignored     *)
(* positions.                                                              *)
is_ignored2D_rowonly(position) == \E q \in ignored_elements : q[1] = position[1]

is_ignored2D(position) == position \in ignored_elements

(* get leaving the lower range checks to Python's list indexing: a         *)
(* negative row or column down to minus the size counts from the end.      *)
get2D_pythonindex(position) ==
    IF position[1] >= size2D[1] \/ position[1] < -size2D[1]
    THEN Raise("IndexError")
    ELSE IF position[2] >= size2D[2] \/ position[2] < -size2D[2]
    THEN Raise("IndexError")
    ELSE Return(ListWalkerElement(position,
                                  data[(position[1] % size2D[1]) + 1][(position[2] % size2D[2]) + 1],
                                  is_ignored2D(position), walker))

(* get hiding the ignored positions: it raises IndexError for them. *)
get2D_hidesignored(position) ==
    IF position[1] < 0 \/ position[1] >= size2D[1]
    THEN Raise("IndexError")
    ELSE IF position[2] < 0 \/ position[2] >= size2D[2]
    THEN Raise("IndexError")
    ELSE IF is_ignored2D(position)
    THEN Raise("IndexError")
    ELSE Return(ListWalkerElement(position, data[position[1] + 1][position[2] + 1],
                                  FALSE, walker))

get2D(position) ==
    IF position[1] < 0 \/ position[1] >= size2D[1]
    THEN Raise("IndexError")
    ELSE IF position[2] < 0 \/ position[2] >= size2D[2]
    THEN Raise("IndexError")
    ELSE Return(ListWalkerElement(position, data[position[1] + 1][position[2] + 1],
                                  is_ignored2D(position), walker))

cursor_element2D == get2D(cursor)

get_up2D == get2D(<<cursor[1] - 1, cursor[2]>>)

(* get_right stepping along the rows instead of the columns. *)
get_right2D_wrongaxis == get2D(<<cursor[1] + 1, cursor[2]>>)

get_right2D == get2D(<<cursor[1], cursor[2] + 1>>)

get_down2D == get2D(<<cursor[1] + 1, cursor[2]>>)

get_left2D == get2D(<<cursor[1], cursor[2] - 1>>)

(* The query of one direction name, as get_neighbors calls them in turn.   *)
get_direction2D(d) ==
    CASE d = "up" -> get_up2D
      [] d = "right" -> get_right2D
      [] d = "down" -> get_down2D
      [] d = "left" -> get_left2D

(* position is assigned ([row, col] is never falsy, None is) and never     *)
(* read: the four queries look from the cursor.                            *)
get_neighbors2D(given, position) ==
    LET position_ == IF given THEN position ELSE cursor
        dirs == {d \in {"up", "right", "down", "left"} : get_direction2D(d).raised = "none"}
    IN  Return([d \in dirs |-> get_direction2D(d).value])

RECURSIVE walk_up_loop2D(_, _, _, _)
walk_up_loop2D(position, element, silent, n) ==
    IF ~element.is_ignored
    THEN Walked(Return(element), position, n)
    ELSE LET next == <<position[1] - 1, position[2]>>
             r == get2D(next)
         IN  IF r.raised = "IndexError"
             THEN IF silent THEN Walked(cursor_element2D, cursor, n + 1)
                            ELSE Walked(r, cursor, n + 1)
             ELSE walk_up_loop2D(next, r.value, silent, n + 1)

(* walk_up whose silent return at the top edge keeps the position it       *)
(* tried: the cursor leaves the grid.                                      *)
walk_up2D_silentmoves(jump, silent) ==
    LET position == <<cursor[1] - 1, cursor[2]>>
        r == get2D(position)
    IN  IF r.raised = "IndexError"
        THEN IF silent THEN Walked(cursor_element2D, position, 0)
                       ELSE Walked(r, cursor, 0)
        ELSE IF ~jump /\ r.value.is_ignored
        THEN IF silent THEN Walked(cursor_element2D, cursor, 0)
                       ELSE Walked(Raise("CannotWalkException"), cursor, 0)
        ELSE walk_up_loop2D(position, r.value, silent, 0)

walk_up2D(jump, silent) ==
    LET position == <<cursor[1] - 1, cursor[2]>>
        r == get2D(position)
    IN  IF r.raised = "IndexError"
        THEN IF silent THEN Walked(cursor_element2D, cursor, 0)
                       ELSE Walked(r, cursor, 0)
        ELSE IF ~jump /\ r.value.is_ignored
        THEN IF silent THEN Walked(cursor_element2D, cursor, 0)
                       ELSE Walked(Raise("CannotWalkException"), cursor, 0)
        ELSE walk_up_loop2D(position, r.value, silent, 0)

RECURSIVE walk_right_loop2D(_, _, _, _)
walk_right_loop2D(position, element, silent, n) ==
    IF ~element.is_ignored
    THEN Walked(Return(element), position, n)
    ELSE LET next == <<position[1], position[2] + 1>>
             r == get2D(next)
         IN  IF r.raised = "IndexError"
             THEN IF silent THEN Walked(cursor_element2D, cursor, n + 1)
                            ELSE Walked(r, cursor, n + 1)
             ELSE walk_right_loop2D(next, r.value, silent, n + 1)

(* walk_right whose silent return, when blocked, is the element that       *)
(* blocked it instead of cursor_element.                                   *)
walk_right2D_returnsblocker(jump, silent) ==
    LET position == <<cursor[1], cursor[2] + 1>>
        r == get2D(position)
    IN  IF r.raised = "IndexError"
        THEN IF silent THEN Walked(cursor_element2D, cursor, 0)
                       ELSE Walked(r, cursor, 0)
        ELSE IF ~jump /\ r.value.is_ignored
        THEN IF silent THEN Walked(r, cursor, 0)
                       ELSE Walked(Raise("CannotWalkException"), cursor, 0)
        ELSE walk_right_loop2D(position, r.value, silent, 0)

walk_right2D(jump, silent) ==
    LET position == <<cursor[1], cursor[2] + 1>>
        r == get2D(position)
    IN  IF r.raised = "IndexError"
        THEN IF silent THEN Walked(cursor_element2D, cursor, 0)
                       ELSE Walked(r, cursor, 0)
        ELSE IF ~jump /\ r.value.is_ignored
        THEN IF silent THEN Walked(cursor_element2D, cursor, 0)
                       ELSE Walked(Raise("CannotWalkException"), cursor, 0)
        ELSE walk_right_loop2D(position, r.value, silent, 0)

RECURSIVE walk_down_loop2D(_, _, _, _)
walk_down_loop2D(position, element, silent, n) ==
    IF ~element.is_ignored
    THEN Walked(Return(element), position, n)
    ELSE LET next == <<position[1] + 1, position[2]>>
             r == get2D(next)
         IN  IF r.raised = "IndexError"
             THEN IF silent THEN Walked(cursor_element2D, cursor, n + 1)
                            ELSE Walked(r, cursor, n + 1)
             ELSE walk_down_loop2D(next, r.value, silent, n + 1)

(* walk_down without its while loop: it lands on the next row even when    *)
(* that position is ignored.                                               *)
walk_down2D_onestep(jump, silent) ==
    LET position == <<cursor[1] + 1, cursor[2]>>
        r == get2D(position)
    IN  IF r.raised = "IndexError"
        THEN IF silent THEN Walked(cursor_element2D, cursor, 0)
                       ELSE Walked(r, cursor, 0)
        ELSE IF ~jump /\ r.value.is_ignored
        THEN IF silent THEN Walked(cursor_element2D, cursor, 0)
                       ELSE Walked(Raise("CannotWalkException"), cursor, 0)
        ELSE Walked(r, position, 0)

walk_down2D(jump, silent) ==
    LET position == <<cursor[1] + 1, cursor[2]>>
        r == get2D(position)
    IN  IF r.raised = "IndexError"
        THEN IF silent THEN Walked(cursor_element2D, cursor, 0)
                       ELSE Walked(r, cursor, 0)
        ELSE IF ~jump /\ r.value.is_ignored
        THEN IF silent THEN Walked(cursor_element2D, cursor, 0)
                       ELSE Walked(Raise("CannotWalkException"), cursor, 0)
        ELSE walk_down_loop2D(position, r.value, silent, 0)

RECURSIVE walk_left_loop2D(_, _, _, _)
walk_left_loop2D(position, element, silent, n) ==
    IF ~element.is_ignored
    THEN Walked(Return(element), position, n)
    ELSE LET next == <<position[1], position[2] - 1>>
             r == get2D(next)
         IN  IF r.raised = "IndexError"
             THEN IF silent THEN Walked(cursor_element2D, cursor, n + 1)
                            ELSE Walked(r, cursor, n + 1)
             ELSE walk_left_loop2D(next, r.value, silent, n + 1)

(* walk_left whose blocked check reads "not jump or element.is_ignored":   *)
(* without jump it never moves.                                            *)
walk_left2D_orcheck(jump, silent) ==
    LET position == <<cursor[1], cursor[2] - 1>>
        r == get2D(position)
    IN  IF r.raised = "IndexError"
        THEN IF silent THEN Walked(cursor_element2D, cursor, 0)
                       ELSE Walked(r, cursor, 0)
        ELSE IF ~jump \/ r.value.is_ignored
        THEN IF silent THEN Walked(cursor_element2D, cursor, 0)
                       ELSE Walked(Raise("CannotWalkException"), cursor, 0)
        ELSE walk_left_loop2D(position, r.value, silent, 0)

walk_left2D(jump, silent) ==
    LET position == <<cursor[1], cursor[2] - 1>>
        r == get2D(position)
    IN  IF r.raised = "IndexError"
        THEN IF silent THEN Walked(cursor_element2D, cursor, 0)
                       ELSE Walked(r, cursor, 0)
        ELSE IF ~jump /\ r.value.is_ignored
        THEN IF silent THEN Walked(cursor_element2D, cursor, 0)
                       ELSE Walked(Raise("CannotWalkException"), cursor, 0)
        ELSE walk_left_loop2D(position, r.value, silent, 0)

(***************************************************************************)
(* The state machine.  walker is the kind and identity of the walker       *)
(* object; ignored_elements, a Python list the code only tests membership  *)
(* of, is the set of its items.                                            *)
(***************************************************************************)
Is1D == walker = "ListWalker1D"

Is2D == walker = "ListWalker2D"

(* The record a method call leaves: its name and arguments, the cursor and *)
(* ignored_elements it started from, what it returned or raised, and the   *)
(* iterations of its while loop.                                           *)
Called(op, args, outcome, n) ==
    [op |-> op, args |-> args, cursor |-> cursor, ignored_elements |-> ignored_elements,
     outcome |-> outcome, iters |-> n]

NoArgs == [none |-> TRUE]

InBounds(position) ==
    IF Is1D THEN 0 <= position /\ position < size1D
            ELSE /\ 0 <= position[1] /\ position[1] < size2D[1]
                 /\ 0 <= position[2] /\ position[2] < size2D[2]

(* Positions a caller passes to get and get_neighbors: every position of   *)
(* the data, the origin, and one position past each edge.                  *)
Positions ==
    IF Is1D THEN -1..size1D
            ELSE {p \in (0..size2D[1]) \X (0..size2D[2]) : InBounds(p)} \cup
                 {<<0, 0>>, <<-1, 0>>, <<0, -1>>, <<size2D[1], 0>>, <<0, size2D[2]>>}

(* The first and the last position of the data. *)
EndPositions ==
    IF Is1D THEN {0, size1D - 1}
            ELSE {<<0, 0>>, <<size2D[1] - 1, size2D[2] - 1>>}

(* Positions a caller asks is_ignored about: the ignored ones, the cursor  *)
(* and one outside the data.                                               *)
AskedPositions ==
    ignored_elements \cup (IF Is1D THEN {cursor, -1} ELSE {cursor, <<-1, 0>>})

(* Positions a caller puts into ignored_elements: those of the data and    *)
(* two outside it.                                                         *)
IgnorePool ==
    IF Is1D THEN -1..size1D
            ELSE {p \in Positions : InBounds(p)} \cup {<<-1, 0>>, size2D}

Init ==
    /\ walker \in {"ListWalker1D", "ListWalker2D"}
    /\ data \in (IF Is1D THEN Data1D ELSE Data2D)
    /\ cursor = (IF Is1D THEN 0 ELSE <<0, 0>>)
    /\ ignored_elements = {}
    /\ call = [op |-> "__init__"]
    /\ lists = <<>>
    /\ cursor_ref = 0
    /\ held = {}

(* walker.ignored_elements.append(position), by the caller *)
Ignore ==
    \E position \in IgnorePool \ ignored_elements :
        /\ Cardinality(ignored_elements) < MaxIgnored
        /\ ignored_elements' = ignored_elements \cup {position}
        /\ call' = [op |-> "ignored_elements.append"]
        /\ UNCHANGED <<walker, data, cursor, lists, cursor_ref, held>>

(* walker.ignored_elements.remove(position), by the caller *)
Unignore ==
    \E position \in ignored_elements :
        /\ ignored_elements' = ignored_elements \ {position}
        /\ call' = [op |-> "ignored_elements.remove"]
        /\ UNCHANGED <<walker, data, cursor, lists, cursor_ref, held>>

(* A walk_* call that drops the ignored positions once it has jumped over  *)
(* some.                                                                   *)
Walk_consumesignored(op, jump, silent, w) ==
    /\ cursor' = w.cursor
    /\ call' = Called(op, [jump |-> jump, silent |-> silent], w.outcome, w.iters)
    /\ ignored_elements' = IF w.iters > 0 THEN {} ELSE ignored_elements
    /\ UNCHANGED <<walker, data, lists, cursor_ref, held>>

(* A walk_* call: the cursor it leaves and the record of the call. *)
Walk(op, jump, silent, w) ==
    /\ cursor' = w.cursor
    /\ call' = Called(op, [jump |-> jump, silent |-> silent], w.outcome, w.iters)
    /\ UNCHANGED <<walker, data, ignored_elements, lists, cursor_ref, held>>

(* A call of a method that assigns no attribute of the walker. *)
Query(op, args, outcome) ==
    /\ call' = Called(op, args, outcome, 0)
    /\ UNCHANGED <<walker, data, cursor, ignored_elements, lists, cursor_ref, held>>

WalkLeft1D ==
    \E jump \in BOOLEAN, silent \in BOOLEAN :
        Is1D /\ Walk("walk_left", jump, silent, walk_left1D(jump, silent))

WalkRight1D ==
    \E jump \in BOOLEAN, silent \in BOOLEAN :
        Is1D /\ Walk("walk_right", jump, silent, walk_right1D(jump, silent))

WalkUp2D ==
    \E jump \in BOOLEAN, silent \in BOOLEAN :
        Is2D /\ Walk("walk_up", jump, silent, walk_up2D(jump, silent))

WalkRight2D ==
    \E jump \in BOOLEAN, silent \in BOOLEAN :
        Is2D /\ Walk("walk_right", jump, silent, walk_right2D(jump, silent))

WalkDown2D ==
    \E jump \in BOOLEAN, silent \in BOOLEAN :
        Is2D /\ Walk("walk_down", jump, silent, walk_down2D(jump, silent))

WalkLeft2D ==
    \E jump \in BOOLEAN, silent \in BOOLEAN :
        Is2D /\ Walk("walk_left", jump, silent, walk_left2D(jump, silent))

Get1D ==
    \E position \in Positions :
        Is1D /\ Query("get", [position |-> position], get1D(position))

Get2D ==
    \E position \in Positions :
        Is2D /\ Query("get", [position |-> position], get2D(position))

CursorElement1D == Is1D /\ Query("cursor_element", NoArgs, cursor_element1D)

CursorElement2D == Is2D /\ Query("cursor_element", NoArgs, cursor_element2D)

GetLeft1D == Is1D /\ Query("get_left", NoArgs, get_left1D)

GetRight1D == Is1D /\ Query("get_right", NoArgs, get_right1D)

GetUp2D == Is2D /\ Query("get_up", NoArgs, get_up2D)

GetRight2D == Is2D /\ Query("get_right", NoArgs, get_right2D)

GetDown2D == Is2D /\ Query("get_down", NoArgs, get_down2D)

GetLeft2D == Is2D /\ Query("get_left", NoArgs, get_left2D)

(* get_neighbors() and get_neighbors(position), for the first and the      *)
(* last position of the data                                               *)
GetNeighbors1D ==
    \/ Is1D /\ Query("get_neighbors", NoArgs, get_neighbors1D(FALSE, 0))
    \/ \E position \in {p \in EndPositions : InBounds(p)} :
           Is1D /\ Query("get_neighbors", [position |-> position],
                         get_neighbors1D(TRUE, position))

GetNeighbors2D ==
    \/ Is2D /\ Query("get_neighbors", NoArgs, get_neighbors2D(FALSE, <<0, 0>>))
    \/ \E position \in {p \in EndPositions : InBounds(p)} :
           Is2D /\ Query("get_neighbors", [position |-> position],
                         get_neighbors2D(TRUE, position))

(* is_ignored(position) *)
IsIgnored1D ==
    \E position \in AskedPositions :
        Is1D /\ Query("is_ignored", [position |-> position], Return(is_ignored1D(position)))

IsIgnored2D ==
    \E position \in AskedPositions :
        Is2D /\ Query("is_ignored", [position |-> position], Return(is_ignored2D(position)))

Size1D == Is1D /\ Query("size", NoArgs, Return(size1D))

Size2D == Is2D /\ Query("size", NoArgs, Return(size2D))

Next ==
    \/ Ignore
    \/ Unignore
    \/ WalkLeft1D
    \/ WalkRight1D
    \/ WalkUp2D
    \/ WalkRight2D
    \/ WalkDown2D
    \/ WalkLeft2D
    \/ Get1D
    \/ Get2D
    \/ CursorElement1D
    \/ CursorElement2D
    \/ GetLeft1D
    \/ GetRight1D
    \/ GetUp2D
    \/ GetRight2D
    \/ GetDown2D
    \/ GetLeft2D
    \/ GetNeighbors1D
    \/ GetNeighbors2D
    \/ IsIgnored1D
    \/ IsIgnored2D
    \/ Size1D
    \/ Size2D

Spec == Init /\ [][Next]_vars

(***************************************************************************)
(* Vocabulary of the properties.                                           *)
(***************************************************************************)
WalkOps == {"walk_left", "walk_right", "walk_up", "walk_down"}

IsWalkCall == call.op \in WalkOps

(* The direction a walk_* method moves in. *)
Dir(op) ==
    CASE op = "walk_left" -> "left"
      [] op = "walk_right" -> "right"
      [] op = "walk_up" -> "up"
      [] op = "walk_down" -> "down"

(* The position k steps from p in direction d. *)
Toward(p, d, k) ==
    IF Is1D
    THEN IF d = "left" THEN p - k ELSE p + k
    ELSE CASE d = "up" -> <<p[1] - k, p[2]>>
           [] d = "down" -> <<p[1] + k, p[2]>>
           [] d = "left" -> <<p[1], p[2] - k>>
           [] d = "right" -> <<p[1], p[2] + k>>

(* The longest walk the data allows. *)
Span == IF Is1D THEN size1D ELSE size2D[1] + size2D[2]

(* The distances from p, in direction d, of the positions that are         *)
(* in-bounds and not in the ignored set ign.                               *)
Landings(p, d, ign) ==
    {k \in 1..Span : InBounds(Toward(p, d, k)) /\ Toward(p, d, k) \notin ign}

Nearest(p, d, ign) ==
    Toward(p, d, CHOOSE k \in Landings(p, d, ign) : \A j \in Landings(p, d, ign) : k <= j)

(* The data item at an in-bounds position p: the lists are [1, 2, ..] and  *)
(* the grids count their cells row by row from 1.                          *)
ItemAt(p) == IF Is1D THEN p + 1 ELSE p[1] * size2D[2] + p[2] + 1

(* The element of the in-bounds position p when the ignored set is ign. *)
ElementAt(p, ign) ==
    [position |-> p, value |-> ItemAt(p), is_ignored |-> p \in ign, walker |-> walker]

NonEmptyData == IF Is1D THEN size1D > 0 ELSE size2D[1] > 0 /\ size2D[2] > 0

(***************************************************************************)
(* C1: a move with jump=true from an in-bounds cursor sets the cursor to   *)
(* the nearest position in its direction that is in-bounds and not         *)
(* ignored and returns the element there; when there is none it raises     *)
(* IndexError (silent=false) or returns the element at the unchanged       *)
(* cursor (silent=true).                                                   *)
(***************************************************************************)
C1_JumpLandsOnNearest ==
    (IsWalkCall /\ call.args.jump /\ InBounds(call.cursor)) =>
        LET d == Dir(call.op)
            ign == call.ignored_elements
        IN  IF Landings(call.cursor, d, ign) # {}
            THEN /\ cursor = Nearest(call.cursor, d, ign)
                 /\ call.outcome = Return(ElementAt(Nearest(call.cursor, d, ign), ign))
            ELSE IF call.args.silent
            THEN /\ cursor = call.cursor
                 /\ call.outcome = Return(ElementAt(call.cursor, ign))
            ELSE call.outcome = Raise("IndexError")

(* walk_down(jump=True) in a grid has skipped two ignored rows and landed  *)
(* three rows down.                                                        *)
C1_Witness ==
    /\ Is2D /\ call.op = "walk_down" /\ call.args.jump
    /\ call.outcome.raised = "none"
    /\ cursor = <<call.cursor[1] + 3, call.cursor[2]>>
    /\ <<call.cursor[1] + 1, call.cursor[2]>> \in ignored_elements
    /\ <<call.cursor[1] + 2, call.cursor[2]>> \in ignored_elements

(***************************************************************************)
(* C2: when the position one step from the cursor is in-bounds and         *)
(* ignored, a move with jump=false raises CannotWalkException if           *)
(* silent=false and returns the element at the cursor if silent=true; the  *)
(* cursor is unchanged in both cases.                                      *)
(***************************************************************************)
C2_BlockedWithoutJump ==
    (/\ IsWalkCall /\ ~call.args.jump
     /\ InBounds(Toward(call.cursor, Dir(call.op), 1))
     /\ Toward(call.cursor, Dir(call.op), 1) \in call.ignored_elements) =>
        /\ cursor = call.cursor
        /\ IF call.args.silent
           THEN call.outcome = Return(ElementAt(call.cursor, call.ignored_elements))
           ELSE call.outcome = Raise("CannotWalkException")

(* walk_up(jump=False) in a grid was blocked by the ignored row above. *)
C2_Witness ==
    /\ Is2D /\ call.op = "walk_up" /\ ~call.args.jump /\ ~call.args.silent
    /\ <<call.cursor[1] - 1, call.cursor[2]>> \in call.ignored_elements
    /\ call.cursor[1] >= 1
    /\ call.outcome.raised = "CannotWalkException"

(***************************************************************************)
(* C3: in every reachable state the cursor is in-bounds for the data, so   *)
(* cursor_element succeeds.  As claimed, for every data; as amended, for   *)
(* data with at least one position.                                        *)
(***************************************************************************)
CursorElementSucceeds ==
    IF Is1D THEN cursor_element1D.raised = "none" ELSE cursor_element2D.raised = "none"

C4_FailedMoveChangesNothing ==
    (IsWalkCall /\ ~call.args.silent /\ call.outcome.raised # "none") =>
        /\ cursor = call.cursor
        /\ ignored_elements = call.ignored_elements

(* walk_right raised IndexError inside its skip loop, after passing two    *)
(* ignored positions.                                                      *)
C4_Witness ==
    /\ IsWalkCall /\ call.op = "walk_right" /\ ~call.args.silent
    /\ call.outcome.raised = "IndexError"
    /\ call.iters = 2
    /\ InBounds(call.cursor)

(* The walk_* method named op, called with jump and silent in the current  *)
(* state.                                                                  *)
WalkOf(op, jump, silent) ==
    IF Is1D
    THEN IF op = "walk_left" THEN walk_left1D(jump, silent) ELSE walk_right1D(jump, silent)
    ELSE CASE op = "walk_up" -> walk_up2D(jump, silent)
           [] op = "walk_right" -> walk_right2D(jump, silent)
           [] op = "walk_down" -> walk_down2D(jump, silent)
           [] op = "walk_left" -> walk_left2D(jump, silent)

Directions == IF Is1D THEN {"left", "right"} ELSE {"up", "right", "down", "left"}

(* The neighbours of position p: each direction whose step from p is       *)
(* in-bounds, with the element there.                                      *)
NeighborsOf(p, ign) ==
    [d \in {e \in Directions : InBounds(Toward(p, e, 1))} |-> ElementAt(Toward(p, d, 1), ign)]

PositionGiven == "position" \in DOMAIN call.args

(***************************************************************************)
(* C5: a move with silent=true never raises, for every walker and state;   *)
(* where the same call with silent=false would raise, it returns the       *)
(* element at the pre-call cursor and leaves the cursor unchanged.         *)
(***************************************************************************)
C5_SilentNeverFails ==
    [][(IsWalkCall' /\ call'.args.silent) =>
          /\ call'.outcome.raised = "none"
          /\ (WalkOf(call'.op, call'.args.jump, FALSE).outcome.raised # "none") =>
                /\ call'.outcome = Return(ElementAt(cursor, ignored_elements))
                /\ cursor' = cursor]_vars

(***************************************************************************)
(* C6: when the next position in a direction is out of bounds, a move in   *)
(* that direction with silent=true leaves the cursor where it is and       *)
(* returns an element, and a repetition of the call returns the same       *)
(* element.                                                                *)
(***************************************************************************)
C6_SilentAtBoundaryIdempotent ==
    [][(/\ IsWalkCall' /\ call'.args.silent
        /\ ~InBounds(Toward(cursor, Dir(call'.op), 1))) =>
          /\ cursor' = cursor
          /\ call'.outcome.raised = "none"
          /\ (IsWalkCall /\ call.op = call'.op /\ call.args = call'.args) =>
                call'.outcome = call.outcome]_vars

(***************************************************************************)
(* C7: get(p) of an in-bounds position p returns the element with          *)
(* position p, the data item at p, is_ignored(p) as it is at the call and  *)
(* the walker queried, also when p is ignored.                             *)
(***************************************************************************)
C7_GetReturnsElement ==
    (call.op = "get" /\ InBounds(call.args.position)) =>
        call.outcome =
            Return([position |-> call.args.position,
                    value |-> ItemAt(call.args.position),
                    is_ignored |-> IF Is1D THEN is_ignored1D(call.args.position)
                                           ELSE is_ignored2D(call.args.position),
                    walker |-> walker])

(* get of an ignored position of a grid, away from the cursor and from the *)
(* first row and column.                                                   *)
C7_Witness ==
    /\ Is2D /\ call.op = "get"
    /\ call.outcome.raised = "none"
    /\ call.outcome.value.is_ignored
    /\ call.args.position # cursor
    /\ call.args.position[1] > 0 /\ call.args.position[2] > 0

(***************************************************************************)
(* C8: get(position) with a coordinate negative or >= the size on its      *)
(* axis raises IndexError, for empty data too, and leaves the cursor and   *)
(* the ignored set unchanged.                                              *)
(***************************************************************************)
C8_GetOutOfRangeRaises ==
    (call.op = "get" /\ ~InBounds(call.args.position)) =>
        /\ call.outcome = Raise("IndexError")
        /\ cursor = call.cursor
        /\ ignored_elements = call.ignored_elements

(* get([0, 0]) on a grid that has rows and no columns. *)
C8_Witness ==
    /\ Is2D /\ size2D[1] > 0 /\ size2D[2] = 0
    /\ call.op = "get" /\ call.args.position = <<0, 0>>
    /\ call.outcome.raised = "IndexError"

(***************************************************************************)
(* C9: get_neighbors(position) with an explicit in-bounds position maps    *)
(* each direction whose step from that position is in-bounds to the        *)
(* element there, whatever the cursor.                                     *)
(***************************************************************************)
C9_NeighborsOfPosition ==
    (call.op = "get_neighbors" /\ PositionGiven) =>
        call.outcome = Return(NeighborsOf(call.args.position, ignored_elements))

(***************************************************************************)
(* C10: get_neighbors() never raises and maps exactly the directions whose *)
(* neighbour of the cursor is in-bounds to the element there, ignored or   *)
(* not; at the top-left corner of a grid of at least 2 x 2 the keys are    *)
(* right and down.                                                         *)
(***************************************************************************)
C10_NeighborsOfCursor ==
    (call.op = "get_neighbors" /\ ~PositionGiven) =>
        /\ call.outcome = Return(NeighborsOf(cursor, ignored_elements))
        /\ (Is2D /\ cursor = <<0, 0>> /\ size2D[1] >= 2 /\ size2D[2] >= 2) =>
              DOMAIN call.outcome.value = {"right", "down"}

(* get_neighbors() at the top-left corner of a grid whose right neighbour  *)
(* is ignored.                                                             *)
C10_Witness ==
    /\ Is2D /\ call.op = "get_neighbors" /\ ~PositionGiven
    /\ cursor = <<0, 0>> /\ size2D[1] >= 2 /\ size2D[2] >= 2
    /\ DOMAIN call.outcome.value = {"right", "down"}
    /\ call.outcome.value["right"].is_ignored
    /\ ~call.outcome.value["down"].is_ignored

(***************************************************************************)
(* C11: a directional query returns the element one step from the cursor   *)
(* in its direction, ignored or not, raises IndexError when that position  *)
(* is out of bounds, and leaves the cursor and the ignored set unchanged.  *)
(***************************************************************************)
DirectionalQueries == {"get_left", "get_right", "get_up", "get_down"}

(* The direction a get_* query looks in. *)
QueryDir(op) ==
    CASE op = "get_left" -> "left"
      [] op = "get_right" -> "right"
      [] op = "get_up" -> "up"
      [] op = "get_down" -> "down"

C11_DirectionalQuery ==
    (call.op \in DirectionalQueries) =>
        LET p == Toward(call.cursor, QueryDir(call.op), 1)
        IN  /\ call.outcome = IF InBounds(p) THEN Return(ElementAt(p, call.ignored_elements))
                                             ELSE Raise("IndexError")
            /\ cursor = call.cursor
            /\ ignored_elements = call.ignored_elements

(* get_left of a list returned the ignored element before the cursor. *)
C11_Witness ==
    /\ Is1D /\ call.op = "get_left"
    /\ call.outcome.raised = "none"
    /\ call.outcome.value.is_ignored
    /\ call.outcome.value.position = cursor - 1
    /\ cursor >= 2

(***************************************************************************)
(* C12: is_ignored(position) never raises.  As claimed, it returns false   *)
(* for every position out of range for the data; as amended, it returns    *)
(* whether the position is in ignored_elements, so false for an            *)
(* out-of-range position unless the caller has put that position there.    *)
(***************************************************************************)
C12_OutOfRangeNeverIgnored ==
    (call.op = "is_ignored" /\ ~InBounds(call.args.position)) =>
        call.outcome = Return(FALSE)

C12_IsIgnoredIsMembership ==
    (call.op = "is_ignored") =>
        /\ call.outcome = Return(call.args.position \in call.ignored_elements)
        /\ (~InBounds(call.args.position) /\ call.outcome.value) =>
              call.args.position \in ignored_elements

(* is_ignored of a position outside the data that the caller has ignored. *)
C12_Witness ==
    /\ call.op = "is_ignored"
    /\ ~InBounds(call.args.position)
    /\ call.outcome = Return(TRUE)
    /\ NonEmptyData

(***************************************************************************)
(* C13: when the position one step from the cursor is in-bounds and not    *)
(* ignored, a move with jump=false succeeds, moves the cursor exactly one  *)
(* step, and leaves the cursor and returns the element that the same move  *)
(* with jump=true does, whatever is ignored further along.                 *)
(***************************************************************************)
C13_JumpGatesFirstStepOnly ==
    [][(/\ IsWalkCall' /\ ~call'.args.jump
        /\ InBounds(Toward(cursor, Dir(call'.op), 1))
        /\ Toward(cursor, Dir(call'.op), 1) \notin ignored_elements) =>
          /\ cursor' = Toward(cursor, Dir(call'.op), 1)
          /\ call'.outcome = Return(ElementAt(cursor', ignored_elements))
          /\ WalkOf(call'.op, TRUE, call'.args.silent).cursor = cursor'
          /\ WalkOf(call'.op, TRUE, call'.args.silent).outcome = call'.outcome]_vars

(* walk_left(jump=False) in a grid moved one column although the position  *)
(* after it is ignored.                                                    *)
C13_Witness ==
    /\ Is2D /\ call.op = "walk_left" /\ ~call.args.jump
    /\ call.outcome.raised = "none"
    /\ cursor = <<call.cursor[1], call.cursor[2] - 1>>
    /\ cursor[2] >= 1
    /\ <<cursor[1], cursor[2] - 1>> \in ignored_elements

(***************************************************************************)
(* C14: every move call terminates, whatever the data size, cursor and     *)
(* ignored set: its loop passes only ignored in-bounds positions, one step *)
(* further each iteration, and ends at the first position that is not      *)
(* ignored or out of bounds, after at most as many iterations as the axis  *)
(* is long.                                                                *)
(***************************************************************************)
AxisSize(d) ==
    IF Is1D THEN size1D
            ELSE IF d \in {"up", "down"} THEN size2D[1] ELSE size2D[2]

C14_WalkLoopBounded ==
    IsWalkCall =>
        LET d == Dir(call.op)
            c == call.cursor
            end == Toward(c, d, call.iters + 1)
        IN  /\ call.iters <= AxisSize(d)
            /\ \A k \in 1..call.iters :
                  InBounds(Toward(c, d, k)) /\ Toward(c, d, k) \in call.ignored_elements
            /\ (call.iters > 0) => (~InBounds(end) \/ end \notin call.ignored_elements)
            /\ (cursor # c) => (cursor = end /\ InBounds(end) /\ end \notin call.ignored_elements)

(* A move over data whose every position is ignored ran its loop up to the *)
(* edge and raised IndexError there.                                       *)
C14_Witness ==
    /\ IsWalkCall /\ NonEmptyData
    /\ \A p \in Positions : InBounds(p) => p \in ignored_elements
    /\ call.iters >= 1
    /\ call.outcome.raised = "IndexError"

(***************************************************************************)
(* C15: for a move with silent=true that returns, the returned element's   *)
(* position differs from the pre-call cursor exactly when the call changed *)
(* the cursor, and then it is the new cursor and is not ignored.           *)
(***************************************************************************)
C15_SilentMoveTellsByPosition ==
    (IsWalkCall /\ call.args.silent /\ call.outcome.raised = "none") =>
        /\ (call.outcome.value.position # call.cursor) <=> (cursor # call.cursor)
        /\ (cursor # call.cursor) =>
              /\ call.outcome.value.position = cursor
              /\ ~call.outcome.value.is_ignored
              /\ cursor \notin ignored_elements

(* A silent walk_right in a grid ran into the edge inside its loop and     *)
(* returned the element at the cursor it started from.                     *)
C15_Witness ==
    /\ Is2D /\ call.op = "walk_right" /\ call.args.silent
    /\ call.iters >= 1
    /\ call.outcome.raised = "none"
    /\ call.outcome.value.position = call.cursor
    /\ cursor = call.cursor

(***************************************************************************)
(* C16: a move of the 2D walker acts on one axis: walk_up and walk_down    *)
(* never change the cursor's column, walk_left and walk_right never its    *)
(* row; and what a vertical move does (whether it succeeds, where it       *)
(* lands, what it returns) is the same with and without an ignored         *)
(* position outside the cursor's column, what a horizontal move does the   *)
(* same with and without one outside the cursor's row: compared before and *)
(* after the caller appends such a position to ignored_elements.           *)
(***************************************************************************)
(* The positions a step adds to ignored_elements. *)
Appended == ignored_elements' \ ignored_elements

C16_OneAxisOnly ==
    [][Is2D =>
         /\ (IsWalkCall' /\ call'.op \in {"walk_up", "walk_down"}) => cursor'[2] = cursor[2]
         /\ (IsWalkCall' /\ call'.op \in {"walk_left", "walk_right"}) => cursor'[1] = cursor[1]
         /\ (Appended # {} /\ \A p \in Appended : p[2] # cursor[2]) =>
               \A jump \in BOOLEAN, silent \in BOOLEAN :
                   /\ walk_up2D(jump, silent)' = walk_up2D(jump, silent)
                   /\ walk_down2D(jump, silent)' = walk_down2D(jump, silent)
         /\ (Appended # {} /\ \A p \in Appended : p[1] # cursor[1]) =>
               \A jump \in BOOLEAN, silent \in BOOLEAN :
                   /\ walk_left2D(jump, silent)' = walk_left2D(jump, silent)
                   /\ walk_right2D(jump, silent)' = walk_right2D(jump, silent)]_vars

(* walk_down skipped an ignored row of its column and landed in a row      *)
(* that has an ignored position in another column.                         *)
C16_Witness ==
    /\ Is2D /\ call.op = "walk_down"
    /\ call.iters >= 1
    /\ call.outcome.raised = "none"
    /\ cursor[2] = call.cursor[2]
    /\ \E p \in ignored_elements : p[1] = cursor[1] /\ p[2] # cursor[2] /\ InBounds(p)

(***************************************************************************)
(* C17: only a successful move changes the walker, and only its cursor:    *)
(* no move call changes the ignored set or the data, and size, get,        *)
(* cursor_element, is_ignored, the directional queries and get_neighbors   *)
(* change neither the cursor nor the ignored set nor the data.             *)
(***************************************************************************)
QueryOps ==
    {"size", "get", "cursor_element", "is_ignored", "get_neighbors"} \cup DirectionalQueries

C17_OnlyMovesChangeOnlyCursor ==
    [][/\ data' = data
       /\ walker' = walker
       /\ IsWalkCall' => ignored_elements' = ignored_elements
       /\ (call'.op \in QueryOps) =>
             (cursor' = cursor /\ ignored_elements' = ignored_elements)
       /\ (cursor' # cursor) =>
             /\ IsWalkCall'
             /\ call'.outcome = Return(ElementAt(cursor', ignored_elements))
             /\ ~call'.outcome.value.is_ignored]_vars

(* A move has jumped over ignored positions, which are still ignored. *)
C17_Witness ==
    /\ IsWalkCall /\ call.iters >= 1
    /\ cursor # call.cursor
    /\ Toward(call.cursor, Dir(call.op), 1) \in ignored_elements
    /\ ignored_elements = call.ignored_elements

(***************************************************************************)
(* C18: opposite moves undo each other.  After a move with jump = true     *)
(* that succeeded from a cursor c that is not ignored, the move with       *)
(* jump = true in the opposite direction, called with the ignored set as   *)
(* it is, succeeds and returns the cursor to c.                            *)
(***************************************************************************)
OppositeOp(op) ==
    CASE op = "walk_left" -> "walk_right"
      [] op = "walk_right" -> "walk_left"
      [] op = "walk_up" -> "walk_down"
      [] op = "walk_down" -> "walk_up"

C18_OppositeMovesUndo ==
    (/\ IsWalkCall /\ call.args.jump
     /\ call.outcome.raised = "none" /\ cursor # call.cursor
     /\ call.cursor \notin ignored_elements)
        => \A silent \in BOOLEAN :
              LET back == WalkOf(OppositeOp(call.op), TRUE, silent)
              IN  /\ back.cursor = call.cursor
                  /\ back.outcome = Return(ElementAt(call.cursor, ignored_elements))

(* A move has jumped over an ignored position from a cursor that is not    *)
(* ignored, and the opposite move has the same position to jump over.      *)
C18_Witness ==
    /\ IsWalkCall /\ call.args.jump /\ call.iters >= 1
    /\ call.outcome.raised = "none" /\ cursor # call.cursor
    /\ call.cursor \notin ignored_elements
    /\ WalkOf(OppositeOp(call.op), TRUE, FALSE).iters >= 1
    /\ WalkOf(OppositeOp(call.op), TRUE, FALSE).cursor = call.cursor

(***************************************************************************)
(* Elements and the identity of position lists.  A ListWalker2D position   *)
(* is a Python list, a mutable object: lists maps the identity of every    *)
(* list something still refers to to its content, cursor_ref is the list   *)
(* self.cursor is bound to, and the position of an element is the list it  *)
(* was built with.  A ListWalker1D position is an int and is held as       *)
(* itself.  held is the set of elements the caller has kept, each with     *)
(* the record of what its fields were when it was returned.                *)
(* The calls of SpecElements leave no record in call.                      *)
(***************************************************************************)
MaxHeld == 1

InitElements ==
    /\ walker \in {"ListWalker1D", "ListWalker2D"}
    /\ data \in (IF Is1D THEN Data1D ELSE Data2D)
    /\ cursor = (IF Is1D THEN 0 ELSE <<0, 0>>)
    /\ ignored_elements = {}
    /\ call = [op |-> "__init__"]
    /\ lists = (IF Is1D THEN <<>> ELSE (1 :> <<0, 0>>))
    /\ cursor_ref = (IF Is1D THEN 0 ELSE 1)
    /\ held = {}

(* What a position field refers to now. *)
Deref(ref) == IF Is1D THEN ref ELSE lists[ref]

(* The identity of a newly built list. *)
Fresh ==
    CHOOSE i \in 1..(MaxHeld + 2) :
        /\ i \notin DOMAIN lists
        /\ \A j \in 1..(MaxHeld + 2) : j \notin DOMAIN lists => i <= j

(* The lists of h that the cursor or a kept element still refers to. *)
Collect(h, c, kept) ==
    IF Is1D THEN <<>> ELSE [i \in {c} \cup {e.position : e \in kept} |-> h[i]]

(* A returned element in the caller's hands: its position is the list     *)
(* ref, its frozen fields are those of the dataclass.                      *)
Held(ref, element) ==
    [position |-> ref, value |-> element.value, is_ignored |-> element.is_ignored,
     returned |-> [position |-> element.position, value |-> element.value,
                   is_ignored |-> element.is_ignored]]

(* A walk that moves by changing the list self.cursor is bound to instead  *)
(* of binding self.cursor to the list it built.                            *)
HoldWalked_inplace(w) ==
    LET moved == w.outcome.raised = "none" /\ w.cursor # cursor
        ref == IF Is1D THEN w.cursor ELSE cursor_ref
        heap == IF Is2D /\ moved THEN [lists EXCEPT ![cursor_ref] = w.cursor] ELSE lists
    IN  /\ cursor' = w.cursor
        /\ cursor_ref' = cursor_ref
        /\ \E keep \in BOOLEAN :
              /\ keep => (w.outcome.raised = "none" /\ Cardinality(held) < MaxHeld)
              /\ held' = IF keep THEN held \cup {Held(ref, w.outcome.value)} ELSE held
              /\ lists' = Collect(heap, cursor_ref', held')
        /\ UNCHANGED <<walker, data, ignored_elements, call>>

(* A walk_* call whose result the caller keeps or drops.  position is a    *)
(* new list (lines 361, 401, 434, 474); a move binds self.cursor to it and *)
(* returns the element built with it; a silent call that does not move     *)
(* returns cursor_element, built with the list of self.cursor.             *)
HoldWalked(w) ==
    LET moved == w.outcome.raised = "none" /\ w.cursor # cursor
        ref == IF Is1D THEN w.cursor ELSE IF moved THEN Fresh ELSE cursor_ref
        heap == IF Is2D /\ moved THEN (Fresh :> w.cursor) @@ lists ELSE lists
    IN  /\ cursor' = w.cursor
        /\ cursor_ref' = (IF Is2D /\ moved THEN Fresh ELSE cursor_ref)
        /\ \E keep \in BOOLEAN :
              /\ keep => (w.outcome.raised = "none" /\ Cardinality(held) < MaxHeld)
              /\ held' = IF keep THEN held \cup {Held(ref, w.outcome.value)} ELSE held
              /\ lists' = Collect(heap, cursor_ref', held')
        /\ UNCHANGED <<walker, data, ignored_elements, call>>

(* A query whose returned element the caller keeps.  get builds the        *)
(* element with the list it is given; cursor_element passes self.cursor.   *)
HoldGot(outcome, ofcursor) ==
    LET ref == IF Is1D THEN outcome.value.position
               ELSE IF ofcursor THEN cursor_ref ELSE Fresh
        heap == IF Is2D /\ ~ofcursor THEN (Fresh :> outcome.value.position) @@ lists
                                     ELSE lists
    IN  /\ outcome.raised = "none"
        /\ Cardinality(held) < MaxHeld
        /\ held' = held \cup {Held(ref, outcome.value)}
        /\ lists' = Collect(heap, cursor_ref, held')
        /\ UNCHANGED <<walker, data, cursor, ignored_elements, cursor_ref, call>>

HoldWalk ==
    \E op \in (IF Is1D THEN {"walk_left", "walk_right"} ELSE WalkOps) :
        \E jump \in BOOLEAN, silent \in BOOLEAN : HoldWalked(WalkOf(op, jump, silent))

HoldGet ==
    \E position \in Positions :
        HoldGot(IF Is1D THEN get1D(position) ELSE get2D(position), FALSE)

HoldCursorElement ==
    HoldGot(IF Is1D THEN cursor_element1D ELSE cursor_element2D, TRUE)

HoldDirectional ==
    \E d \in Directions :
        HoldGot(IF Is1D THEN (IF d = "left" THEN get_left1D ELSE get_right1D)
                        ELSE get_direction2D(d),
                FALSE)

(* The caller lets go of an element. *)
Release ==
    \E e \in held :
        /\ held' = held \ {e}
        /\ lists' = Collect(lists, cursor_ref, held')
        /\ UNCHANGED <<walker, data, cursor, ignored_elements, cursor_ref, call>>

NextElements ==
    \/ Ignore
    \/ Unignore
    \/ HoldWalk
    \/ HoldGet
    \/ HoldCursorElement
    \/ HoldDirectional
    \/ Release

SpecElements == InitElements /\ [][NextElements]_vars

(***************************************************************************)
(* C19: an element is a snapshot.  The position, value and is_ignored of   *)
(* every element the caller has kept are what they were when it was        *)
(* returned, whatever moves and changes of the ignored set came after,     *)
(* and whatever is_ignored(position) says now.                             *)
(***************************************************************************)
C19_ElementIsSnapshot ==
    \A e \in held :
        /\ Deref(e.position) = e.returned.position
        /\ e.value = e.returned.value
        /\ e.is_ignored = e.returned.is_ignored

(* The caller holds the element cursor_element returned at the origin,     *)
(* built with the list of self.cursor; the cursor has since moved two rows *)
(* down past an ignored position, and the origin is now ignored, which the *)
(* element does not say.                                                   *)
C19_Witness ==
    /\ Is2D
    /\ cursor = <<2, 0>> /\ <<1, 0>> \in ignored_elements
    /\ \E e \in held :
          /\ e.returned.position = <<0, 0>>
          /\ e.position # cursor_ref
          /\ ~e.is_ignored
          /\ is_ignored2D(Deref(e.position))

=============================================================================
